---- MODULE Spec2Model ----
(***************************************************************************)
(* Photo Checker (src/app.py): for a sorted list of aircraft registrations *)
(* a thread pool runs check(reg) per registration; check calls the enabled *)
(* probes search_airteam, search_v1, search_ain in that order; the main     *)
(* thread collects the records in input order, builds a DataFrame and an   *)
(* Excel report.                                                           *)
(*                                                                         *)
(* Strings that the program builds (URLs, links) are sequences of tokens;  *)
(* the empty string '' is the empty sequence.  Registrations are atomic    *)
(* strings, ordered by their position in RegPool.                          *)
(*                                                                         *)
(* Two specifications:                                                     *)
(*   Spec      - a whole run: Run Checks, the pool's workers, the          *)
(*               collecting loop, the DataFrame and the report.            *)
(*   SpecProbe - one probe call on its own, with the HTTP attempts of the  *)
(*               retrying session made one by one.                         *)
(***************************************************************************)
EXTENDS Integers, Sequences, FiniteSets, TLC

\* ---------------------------------------------------------------- bounds
MaxRegs == 2
MaxWorkers == 2
\* Longest cell of the one-row uploads, rows of the other uploads, and how
\* often Run Checks is pressed.
MaxCell == 4
MaxRows == 2
MaxRuns == 1

\* ------------------------------------------------------------- constants
\* Registrations in ascending lexicographic order (' ' < '-' < digits < letters).
RegPool == <<"G-ABCD", "N123AB", "VH OQA">>

RetryTotal == 3
status_forcelist == {429, 500, 502, 503, 504}
\* A connection-level failure of one attempt (refused, reset, timed out).
ConnFail == 0
\* What one HTTP attempt can produce.
Statuses == {ConnFail, 200, 404} \cup status_forcelist

Providers == <<"ATI", "V1", "AIN">>

\* ------------------------------------------------------------- variables
VARIABLES
    regs,       \* the sorted, duplicate-free registrations (load_regs)
    workers,    \* the "Parallel workers" slider
    check_ati, check_v1, check_ain,   \* the three checkboxes
    main_pc,    \* position of the script's main thread
    queue,      \* the executor's work queue: indexes into regs, FIFO
    wk,         \* per pool thread: its position in check, its index, its e
    futures,    \* per index: has check returned, and what
    results,    \* the list results
    progress,   \* last value given to progress.progress, as <<i+1, len(regs)>>
    driver,     \* the one shared browser: what page it shows
    df_out,     \* the DataFrame of line 156
    report,     \* the written workbook: header, rows and hyperlinks
    remote,     \* what each site served for each (index, provider)
    overtook,   \* some check has returned before the check of an earlier index
    calls,      \* per index: "check" and the probes called for it, in call order
    p_probe,    \* SpecProbe: the probe called, "ATI", "V1" or "AIN"
    p_reg,      \* its argument reg
    p_pc,       \* its position
    p_retry,    \* what is left of Retry.total
    p_exc,      \* the exception raised inside the try block, "" when none
    p_history,  \* what each HTTP attempt so far produced
    p_fetch,    \* the outcome of the try block of an HTTP probe
    p_page,     \* the page the browser shows
    p_out,      \* the pair the probe returned
    l_ext,      \* SpecLoad: ext, the extension of the uploaded file
    l_col,      \* col_input, a string of characters
    l_df,       \* the uploaded data: column names and rows of cells
    l_pc,       \* where the script is: before load_regs, loaded, stopped, raised
    l_exc,      \* the exception that ended the script run, "" when none
    l_regs,     \* regs as load_regs returned it
    l_prev,     \* regs of the script run before the current one
    l_runs      \* how often Run Checks was pressed

cfgvars == <<regs, workers, check_ati, check_v1, check_ain>>
runvars == <<main_pc, queue, wk, futures, results, progress, driver, df_out,
             report, remote, overtook, calls>>
probevars == <<p_probe, p_reg, p_pc, p_retry, p_exc, p_history, p_fetch, p_page,
               p_out>>
loadvars == <<l_ext, l_col, l_df, l_pc, l_exc, l_regs, l_prev, l_runs>>
vars == <<cfgvars, runvars, probevars, loadvars>>

\* ------------------------------------------------------ string helpers
RECURSIVE rstrip(_)
\* str.rstrip('/'): drop every trailing '/'.
rstrip(s) ==
    IF s # <<>> /\ s[Len(s)] = "/" THEN rstrip(SubSeq(s, 1, Len(s) - 1)) ELSE s

\* quote_plus: the characters of "G-ABCD" and "N123AB" are safe; a space
\* becomes '+'.
quote_plus(reg) == IF reg = "VH OQA" THEN "VH+OQA" ELSE reg

ati_url(reg) ==
    <<"https://www.airteamimages.com/search?q=", quote_plus(reg), "&sort=id%2Cdesc">>
v1_url(reg) ==
    <<"https://www.v1images.com/?s=", quote_plus(reg), "&post_type=product&orderby=date-DESC">>
ain_url(reg) ==
    <<"https://www.aviationimagenetwork.com/search/?n=aviationimagenetwork&scope=node&scopeValue=cm8GDr&c=photos&q=",
      quote_plus(reg)>>

\* The URLs r.url can hold after session.get(v1_url(reg)): the requested one,
\* the requested one plus a trailing slash, or an item page (with or without
\* a trailing slash).
v1_item(reg) == <<"https://www.v1images.com/product/", quote_plus(reg)>>
V1Finals(reg) ==
    {v1_url(reg), v1_url(reg) \o <<"/">>, v1_item(reg), v1_item(reg) \o <<"/">>}

\* ------------------------------------------------- the fetch of a probe
\* The outcome of lines 64-65 / 75-76: exc = an exception was raised inside
\* the try block; otherwise marker = r.text matches the probe's pattern and
\* final = r.url.
FetchExc == [exc |-> TRUE, marker |-> FALSE, final |-> <<>>]
FetchOk(marker, final) == [exc |-> FALSE, marker |-> marker, final |-> final]

NoFetch == FetchOk(FALSE, <<>>)

AtiFetches(reg) == {FetchExc} \cup {FetchOk(m, ati_url(reg)) : m \in BOOLEAN}
V1Fetches(reg) == {FetchExc} \cup {FetchOk(m, f) : m \in BOOLEAN, f \in V1Finals(reg)}

\* ------------------------------------------------------------ the probes
search_airteam(reg, r) ==
    IF r.exc THEN <<FALSE, <<>>>> ELSE <<r.marker, ati_url(reg)>>

\* search_v1 with the requested URL as the link whenever found.
search_v1_own_link(reg, r) ==
    IF r.exc THEN <<FALSE, <<>>>>
    ELSE LET url == v1_url(reg)
             found == (rstrip(r.final) # rstrip(url)) \/ r.marker
         IN <<found, IF found THEN url ELSE <<>>>>

\* search_v1 that looks at the redirect only.
search_v1_redirect_only(reg, r) ==
    IF r.exc THEN <<FALSE, <<>>>>
    ELSE LET found == rstrip(r.final) # rstrip(v1_url(reg))
         IN <<found, IF found THEN r.final ELSE <<>>>>

search_v1(reg, r) ==
    IF r.exc THEN <<FALSE, <<>>>>
    ELSE LET url == v1_url(reg)
             final == r.final
             found == (rstrip(final) # rstrip(url)) \/ r.marker
         IN <<found, IF found THEN final ELSE <<>>>>

\* The pages the browser can show after driver.get: "thumbs" has an
\* img[src*="smugmug"], "noresults" has .no-results and no thumbnail,
\* "blank" has neither within the timeout.  "navfail": driver.get raised.
AinPages == {"thumbs", "noresults", "blank"}
AinServes == AinPages \cup {"navfail"}

\* WebDriverWait(...).until(any_of(...)) on the page the browser shows.
wait_ok(page) == page \in {"thumbs", "noresults"}
\* driver.find_elements(...) on the page the browser shows.
thumbs(page) == page = "thumbs"

\* Lines 97-102, after the wait succeeded.
ain_found(reg, page) ==
    IF thumbs(page) THEN <<TRUE, ain_url(reg)>> ELSE <<FALSE, <<>>>>

\* search_ain when nothing else touches the browser during the call.
search_ain(reg, served) ==
    IF served = "navfail" THEN <<FALSE, <<>>>>
    ELSE IF ~wait_ok(served) THEN <<FALSE, <<>>>>
    ELSE ain_found(reg, served)

\* urllib3's Retry: a connection-level failure or a status of the
\* status_forcelist is retried while the total is not used up.
is_retry(st) == st = ConnFail \/ st \in status_forcelist
\* Retry that gives up one attempt early.
is_exhausted_early(total) == total <= 0
is_exhausted(total) == total < 0

\* The bare except of lines 66, 77 and 100 catches every exception.
\* An except clause for requests.HTTPError only.
caught_http_only(kind) == kind = "HTTPError"
caught(kind) == TRUE

\* ------------------------------------------------------------- records
NoRecord == [Registration |-> ""]
\* put with the link of every provider stored under 'ATI_Link'.
put_copy_paste(e, flagcol, linkcol, okln) ==
    (flagcol :> okln[1]) @@ ("ATI_Link" :> okln[2]) @@ e
put(e, flagcol, linkcol, okln) ==
    (flagcol :> okln[1]) @@ (linkcol :> okln[2]) @@ e

Columns == <<"Registration", "AirTeamImages", "ATI_Link", "V1Images", "V1_Link",
             "AIN", "AIN_Link">>

Range(s) == {s[i] : i \in 1..Len(s)}

\* The columns of pd.DataFrame(rows): the union of the records' keys.
FrameColumns(rows) == UNION {DOMAIN rows[i] : i \in 1..Len(rows)}

\* ---------------------------------------------------------------- Spec
\* Where check goes on: the next selected provider of lines 148-150, or the
\* return of line 151.
AfterV1 == IF check_ain THEN "ain" ELSE "ret"
\* check that goes from search_airteam straight past line 149.
AfterAtiSkipsV1 == IF check_ain THEN "ain" ELSE "ret"
AfterAti == IF check_v1 THEN "v1" ELSE AfterV1
AfterEntry == IF check_ati THEN "ati" ELSE AfterAti

\* What the sites serve during a whole run: per provider a failed fetch and
\* a positive answer; for the browser every kind of page.
RunAtiFetches(reg) == {FetchExc, FetchOk(TRUE, ati_url(reg))}
RunV1Fetches(reg) == {FetchExc, FetchOk(FALSE, v1_item(reg))}
RunAinServes == AinServes

IdleWorker == [pc |-> "idle", idx |-> 0, e |-> NoRecord]
NoFuture == [done |-> FALSE, e |-> NoRecord]
NoPage == [reg |-> "", page |-> "blank"]
NoReport == [header |-> <<>>, rows |-> <<>>, links |-> {}]

\* Strictly ascending index sequences into RegPool of length at most MaxRegs.
RECURSIVE Ascending(_, _)
Ascending(from, len) ==
    IF len = 0 THEN {<<>>}
    ELSE UNION {{<<i>> \o t : t \in Ascending(i + 1, len - 1)} :
                i \in from..Len(RegPool)}
RegLists ==
    UNION {{[k \in 1..n |-> RegPool[s[k]]] : s \in Ascending(1, n)} : n \in 0..MaxRegs}

ProbeIdle ==
    /\ p_probe = "" /\ p_reg = "" /\ p_pc = "off" /\ p_retry = 0 /\ p_exc = ""
    /\ p_history = <<>> /\ p_fetch = NoFetch /\ p_page = "blank"
    /\ p_out = <<FALSE, <<>>>>

NoData == [columns |-> <<>>, rows |-> <<>>]
LoadIdle ==
    /\ l_ext = "" /\ l_col = <<>> /\ l_df = NoData /\ l_pc = "off" /\ l_exc = ""
    /\ l_regs = <<>> /\ l_prev = <<>> /\ l_runs = 0

RunIdle ==
    /\ main_pc = "idle"
    /\ queue = <<>>
    /\ wk = [w \in 1..MaxWorkers |-> IdleWorker]
    /\ futures = <<>>
    /\ results = <<>>
    /\ progress = <<0, 1>>
    /\ driver = NoPage
    /\ df_out = <<>>
    /\ report = NoReport
    /\ remote = <<>>
    /\ overtook = FALSE
    /\ calls = <<>>

Init ==
    /\ regs \in RegLists
    /\ workers \in 1..MaxWorkers
    /\ check_ati \in BOOLEAN /\ check_v1 \in BOOLEAN /\ check_ain \in BOOLEAN
    /\ RunIdle
    /\ ProbeIdle
    /\ LoadIdle

NoServe == [p \in {} |-> 0]

\* if st.button("Run Checks"): progress, results, ex.map submits every reg.
RunChecks ==
    /\ main_pc = "idle"
    /\ main_pc' = "map"
    /\ queue' = [i \in 1..Len(regs) |-> i]
    /\ futures' = [i \in 1..Len(regs) |-> NoFuture]
    /\ remote' = [i \in 1..Len(regs) |-> NoServe]
    /\ results' = <<>>
    /\ progress' = <<0, 1>>
    /\ calls' = [i \in 1..Len(regs) |-> <<>>]
    /\ UNCHANGED <<wk, driver, df_out, report, overtook>>
    /\ UNCHANGED <<cfgvars, probevars, loadvars>>

\* The thread w goes on in check at position pc2 with the record e2; at
\* "ret" (line 151) check returns e2, the future of the index gets its
\* result and the thread is free for the next work item.
GoOn(w, idx, pc2, e2) ==
    IF pc2 = "ret"
    THEN /\ wk' = [wk EXCEPT ![w] = IdleWorker]
         /\ futures' = [futures EXCEPT ![idx] = [done |-> TRUE, e |-> e2]]
         /\ overtook' = (overtook \/ \E j \in 1..(idx - 1) : ~futures[j].done)
    ELSE /\ wk' = [wk EXCEPT ![w] = [pc |-> pc2, idx |-> idx, e |-> e2]]
         /\ UNCHANGED <<futures, overtook>>

\* The call of what (check or a probe) for the index idx is recorded.
Called(idx, what) == [calls EXCEPT ![idx] = Append(@, what)]

\* A pool that runs a thread beyond max_workers.
TakeAnyThread(w) ==
    /\ main_pc = "map"
    /\ wk[w].pc = "idle"
    /\ \A v \in 1..(w - 1) : wk[v].pc # "idle"
    /\ queue # <<>>
    /\ GoOn(w, Head(queue), AfterEntry, [Registration |-> regs[Head(queue)]])
    /\ queue' = Tail(queue)
    /\ UNCHANGED <<main_pc, results, progress, driver, df_out, report, remote>>
    /\ calls' = Called(Head(queue), "check")
    /\ UNCHANGED <<cfgvars, probevars, loadvars>>

\* A pool thread takes the next work item and enters check(reg): line 147.
\* The threads are interchangeable: the lowest idle one takes the item.
Take(w) ==
    /\ main_pc = "map"
    /\ w <= workers
    /\ wk[w].pc = "idle"
    /\ \A v \in 1..(w - 1) : wk[v].pc # "idle"
    /\ queue # <<>>
    /\ GoOn(w, Head(queue), AfterEntry, [Registration |-> regs[Head(queue)]])
    /\ queue' = Tail(queue)
    /\ UNCHANGED <<main_pc, results, progress, driver, df_out, report, remote>>
    /\ calls' = Called(Head(queue), "check")
    /\ UNCHANGED <<cfgvars, probevars, loadvars>>

Serve(idx, p, s) == [remote EXCEPT ![idx] = (p :> s) @@ @]

\* Line 148.
CheckAti(w) ==
    /\ wk[w].pc = "ati"
    /\ check_ati
    /\ LET reg == regs[wk[w].idx] IN
       \E r \in RunAtiFetches(reg) :
          /\ GoOn(w, wk[w].idx, AfterAti,
                  put(wk[w].e, "AirTeamImages", "ATI_Link", search_airteam(reg, r)))
          /\ remote' = Serve(wk[w].idx, "ATI", r)
    /\ UNCHANGED <<main_pc, queue, results, progress, driver, df_out, report>>
    /\ calls' = Called(wk[w].idx, "ATI")
    /\ UNCHANGED <<cfgvars, probevars, loadvars>>

\* Line 149.
CheckV1(w) ==
    /\ wk[w].pc = "v1"
    /\ check_v1
    /\ LET reg == regs[wk[w].idx] IN
       \E r \in RunV1Fetches(reg) :
          /\ GoOn(w, wk[w].idx, AfterV1,
                  put(wk[w].e, "V1Images", "V1_Link", search_v1(reg, r)))
          /\ remote' = Serve(wk[w].idx, "V1", r)
    /\ UNCHANGED <<main_pc, queue, results, progress, driver, df_out, report>>
    /\ calls' = Called(wk[w].idx, "V1")
    /\ UNCHANGED <<cfgvars, probevars, loadvars>>

\* Line 150 up to driver.get(url) of line 88; when driver.get raises, the
\* except of line 100 and the return of line 102.
AinGet(w) ==
    /\ wk[w].pc = "ain"
    /\ check_ain
    /\ LET reg == regs[wk[w].idx] IN
       \E s \in RunAinServes :
          /\ remote' = Serve(wk[w].idx, "AIN", s)
          /\ IF s = "navfail"
             THEN /\ GoOn(w, wk[w].idx, "ret",
                          put(wk[w].e, "AIN", "AIN_Link", <<FALSE, <<>>>>))
                  /\ UNCHANGED driver
             ELSE /\ GoOn(w, wk[w].idx, "ain_wait", wk[w].e)
                  /\ driver' = [reg |-> reg, page |-> s]
    /\ UNCHANGED <<main_pc, queue, results, progress, df_out, report>>
    /\ calls' = Called(wk[w].idx, "AIN")
    /\ UNCHANGED <<cfgvars, probevars, loadvars>>

\* Lines 90-95: the wait looks at whatever page the shared browser shows;
\* when it times out, the except of line 100 and the return of line 102.
AinWait(w) ==
    /\ wk[w].pc = "ain_wait"
    /\ IF wait_ok(driver.page)
       THEN GoOn(w, wk[w].idx, "ain_find", wk[w].e)
       ELSE GoOn(w, wk[w].idx, "ret",
                 put(wk[w].e, "AIN", "AIN_Link", <<FALSE, <<>>>>))
    /\ UNCHANGED <<main_pc, queue, results, progress, driver, df_out, report, remote>>
    /\ UNCHANGED calls
    /\ UNCHANGED <<cfgvars, probevars, loadvars>>

\* Lines 97-102: find_elements on whatever page the shared browser shows.
AinFind(w) ==
    /\ wk[w].pc = "ain_find"
    /\ GoOn(w, wk[w].idx, "ret",
            put(wk[w].e, "AIN", "AIN_Link", ain_found(regs[wk[w].idx], driver.page)))
    /\ UNCHANGED <<main_pc, queue, results, progress, driver, df_out, report, remote>>
    /\ UNCHANGED calls
    /\ UNCHANGED <<cfgvars, probevars, loadvars>>

\* An iterator that yields results as they complete (as_completed).
NextYieldAny ==
    LET ready == {i \in 1..Len(futures) :
                    futures[i].done /\ futures[i].e \notin Range(results)}
    IN IF ready = {} THEN Len(results) + 1 ELSE CHOOSE i \in ready : \A j \in ready : i >= j
\* The index whose result ex.map yields next: the iterator of Executor.map
\* waits for the futures in submission order.
NextYield == Len(results) + 1

\* Lines 153-155: one iteration of the for loop.
Collect ==
    /\ main_pc = "map"
    /\ Len(results) < Len(regs)
    /\ LET i == NextYield IN
        /\ i \in 1..Len(regs)
        /\ futures[i].done
        /\ results' = Append(results, futures[i].e)
        /\ progress' = <<Len(results) + 1, Len(regs)>>
    /\ UNCHANGED <<main_pc, queue, wk, futures, driver, df_out, report, remote,
                   overtook>>
    /\ UNCHANGED calls
    /\ UNCHANGED <<cfgvars, probevars, loadvars>>

\* The for loop ends and the with block of line 152 is left.
ExitPool ==
    /\ main_pc = "map"
    /\ Len(results) = Len(regs)
    /\ main_pc' = "frame"
    /\ UNCHANGED <<queue, wk, futures, results, progress, driver, df_out, report,
                   remote, overtook>>
    /\ UNCHANGED calls
    /\ UNCHANGED <<cfgvars, probevars, loadvars>>

\* Line 156: pd.DataFrame(results)[[...the seven columns...]].  Selecting
\* a list of columns of which one is missing raises KeyError; nothing
\* catches it, and the script run ends there.
BuildFrame ==
    /\ main_pc = "frame"
    /\ IF Range(Columns) \subseteq FrameColumns(results)
       THEN /\ df_out' = [i \in 1..Len(results) |->
                            [c \in Range(Columns) |-> results[i][c]]]
            /\ main_pc' = "xlsx"
       ELSE /\ main_pc' = "failed"
            /\ UNCHANGED df_out
    /\ UNCHANGED <<queue, wk, futures, results, progress, driver, report, remote,
                   overtook>>
    /\ UNCHANGED calls
    /\ UNCHANGED <<cfgvars, probevars, loadvars>>

\* The hyperlinks of one provider's block: ws.write_url(r, col, link, ...)
\* for every row with a non-empty link.
write_urls(on, linkcol, col) ==
    IF on THEN {<<r, col, df_out[r][linkcol]>> :
                  r \in {q \in 1..Len(df_out) : df_out[q][linkcol] # <<>>}}
    ELSE {}

\* Lines 157-177: the sheet gets the frame's header and rows, then the
\* hyperlinks of the selected providers.
WriteReport ==
    /\ main_pc = "xlsx"
    /\ report' = [header |-> Columns, rows |-> df_out,
                  links |-> write_urls(check_ati, "ATI_Link", 2)
                            \cup write_urls(check_v1, "V1_Link", 4)
                            \cup write_urls(check_ain, "AIN_Link", 6)]
    /\ main_pc' = "done"
    /\ UNCHANGED <<queue, wk, futures, results, progress, driver, df_out, remote,
                   overtook>>
    /\ UNCHANGED calls
    /\ UNCHANGED <<cfgvars, probevars, loadvars>>

Next ==
    \/ RunChecks
    \/ \E w \in 1..MaxWorkers : Take(w)
    \/ \E w \in 1..MaxWorkers : CheckAti(w)
    \/ \E w \in 1..MaxWorkers : CheckV1(w)
    \/ \E w \in 1..MaxWorkers : AinGet(w)
    \/ \E w \in 1..MaxWorkers : AinWait(w)
    \/ \E w \in 1..MaxWorkers : AinFind(w)
    \/ Collect
    \/ ExitPool
    \/ BuildFrame
    \/ WriteReport

Spec == Init /\ [][Next]_vars

\* ----------------------------------------------------------- SpecProbe
\* One call of one probe, with nothing else running.
InitProbe ==
    /\ regs = <<>> /\ workers = 1
    /\ check_ati = FALSE /\ check_v1 = FALSE /\ check_ain = FALSE
    /\ RunIdle
    /\ LoadIdle
    /\ p_probe \in Range(Providers)
    /\ p_reg \in Range(RegPool)
    /\ p_pc = "get"
    /\ p_retry = RetryTotal
    /\ p_exc = ""
    /\ p_history = <<>>
    /\ p_fetch = NoFetch
    /\ p_page = "blank"
    /\ p_out = <<FALSE, <<>>>>

\* An exception of the given kind is raised inside the try block.
Raise(kind) ==
    /\ p_exc' = kind
    /\ IF caught(kind)
       THEN p_fetch' = FetchExc /\ p_pc' = "fetched"
       ELSE p_pc' = "raised" /\ UNCHANGED p_fetch

\* One HTTP attempt of session.get (lines 64 and 75) and, on the response
\* that ends the retrying, r.raise_for_status() (lines 65 and 76).
HttpAttempt ==
    /\ p_pc = "get"
    /\ p_probe \in {"ATI", "V1"}
    /\ \E st \in Statuses :
        /\ p_history' = Append(p_history, st)
        /\ IF is_retry(st)
           THEN /\ p_retry' = p_retry - 1
                /\ IF is_exhausted(p_retry - 1)
                   THEN Raise(IF st = ConnFail THEN "ConnectionError" ELSE "RetryError")
                   ELSE UNCHANGED <<p_pc, p_exc, p_fetch>>
           ELSE /\ UNCHANGED p_retry
                /\ IF st = 200
                   THEN /\ p_fetch' \in (IF p_probe = "ATI" THEN AtiFetches(p_reg)
                                        ELSE V1Fetches(p_reg)) \ {FetchExc}
                        /\ p_pc' = "fetched"
                        /\ UNCHANGED p_exc
                   ELSE Raise("HTTPError")
    /\ UNCHANGED <<p_probe, p_reg, p_page, p_out>>
    /\ UNCHANGED <<cfgvars, runvars, loadvars>>

\* Lines 66-68 and 77-81: what the probe returns after the try block.
ProbeReturn ==
    /\ p_pc = "fetched"
    /\ p_out' = IF p_probe = "ATI" THEN search_airteam(p_reg, p_fetch)
                ELSE search_v1(p_reg, p_fetch)
    /\ p_pc' = "returned"
    /\ UNCHANGED <<p_probe, p_reg, p_retry, p_exc, p_history, p_fetch, p_page>>
    /\ UNCHANGED <<cfgvars, runvars, loadvars>>

\* An exception of the given kind is raised inside the try block of
\* search_ain: lines 100-102.
AinRaise(kind) ==
    /\ p_exc' = kind
    /\ IF caught(kind)
       THEN p_out' = <<FALSE, <<>>>> /\ p_pc' = "returned"
       ELSE p_pc' = "raised" /\ UNCHANGED p_out

\* Line 88.
ProbeAinGet ==
    /\ p_pc = "get"
    /\ p_probe = "AIN"
    /\ \E s \in AinServes :
        IF s = "navfail"
        THEN AinRaise("WebDriverException") /\ UNCHANGED p_page
        ELSE p_page' = s /\ p_pc' = "wait" /\ UNCHANGED <<p_exc, p_out>>
    /\ UNCHANGED <<p_probe, p_reg, p_retry, p_history, p_fetch>>
    /\ UNCHANGED <<cfgvars, runvars, loadvars>>

\* Lines 90-95.
ProbeAinWait ==
    /\ p_pc = "wait"
    /\ IF wait_ok(p_page)
       THEN p_pc' = "find" /\ UNCHANGED <<p_exc, p_out>>
       ELSE AinRaise("TimeoutException")
    /\ UNCHANGED <<p_probe, p_reg, p_retry, p_history, p_fetch, p_page>>
    /\ UNCHANGED <<cfgvars, runvars, loadvars>>

\* Lines 97-102.
ProbeAinFind ==
    /\ p_pc = "find"
    /\ p_out' = ain_found(p_reg, p_page)
    /\ p_pc' = "returned"
    /\ UNCHANGED <<p_probe, p_reg, p_retry, p_exc, p_history, p_fetch, p_page>>
    /\ UNCHANGED <<cfgvars, runvars, loadvars>>

NextProbe ==
    \/ HttpAttempt
    \/ ProbeReturn
    \/ ProbeAinGet
    \/ ProbeAinWait
    \/ ProbeAinFind

SpecProbe == InitProbe /\ [][NextProbe]_vars

\* ------------------------------------------------------------ SpecLoad
\* Text is a sequence of one-character strings.  The characters in use, in
\* the order of their code points.
CharOrder == <<" ", "-", "0", "1", "2", "3", "A", "B", "C", "D", "G", "N",
               "a", "b", "c", "d", "g", "n">>
Ord(c) == CHOOSE k \in 1..Len(CharOrder) : CharOrder[k] = c
IsDigit(c) == c \in {"1", "2", "3", "0"}
IsUpper(c) == c \in {"A", "B", "C", "D", "G", "N"}
IsLower(c) == c \in {"a", "b", "c", "d", "g", "n"}
\* [A-Z0-9] and \w.
IsAZ09(c) == IsUpper(c) \/ IsDigit(c)
IsWord(c) == IsUpper(c) \/ IsLower(c) \/ IsDigit(c)

\* \b before position p of s (p = Len(s) + 1: at the end).
WordAt(s, p) == p \in 1..Len(s) /\ IsWord(s[p])
Boundary(s, p) == WordAt(s, p - 1) # WordAt(s, p)

Chars(class) ==
    IF class = "AZ09" THEN {c \in Range(CharOrder) : IsAZ09(c)}
    ELSE IF class = "digit" THEN {c \in Range(CharOrder) : IsDigit(c)}
    ELSE {c \in Range(CharOrder) : IsUpper(c)}
AllIn(s, from, to, class) ==
    \A k \in from..to : k \in 1..Len(s) /\ s[k] \in Chars(class)

Max(S) == CHOOSE x \in S : \A y \in S : x >= y

\* Where a match of [A-Z0-9]{1,3}-[A-Z0-9]{1,5} that starts at i can end
\* (the position after its last character).
Alt1Ends(s, i) ==
    {e \in (i + 3)..(Len(s) + 1) :
        \E a \in 1..3 : \E b \in 1..5 :
            /\ e = i + a + 1 + b
            /\ AllIn(s, i, i + a - 1, "AZ09")
            /\ i + a <= Len(s) /\ s[i + a] = "-"
            /\ AllIn(s, i + a + 1, i + a + b, "AZ09")
            /\ Boundary(s, e)}

\* Where a match of N\d{1,5}[A-Z]? that starts at i can end.
Alt2Ends(s, i) ==
    {e \in (i + 2)..(Len(s) + 1) :
        \E d \in 1..5 : \E l \in 0..1 :
            /\ e = i + 1 + d + l
            /\ s[i] = "N"
            /\ AllIn(s, i + 1, i + d, "digit")
            /\ AllIn(s, i + 1 + d, i + d + l, "upper")
            /\ Boundary(s, e)}

\* The end of the match of the pattern of line 51 at position i, 0 when
\* there is none: \b, then the first alternative that matches, each
\* quantifier as long as the rest of the pattern allows.
MatchEnd(s, i) ==
    IF ~Boundary(s, i) THEN 0
    ELSE IF Alt1Ends(s, i) # {} THEN Max(Alt1Ends(s, i))
    ELSE IF Alt2Ends(s, i) # {} THEN Max(Alt2Ends(s, i))
    ELSE 0

\* pattern.findall(txt): the non-overlapping matches from left to right.
RECURSIVE findall(_, _)
findall(s, i) ==
    IF i > Len(s) THEN {}
    ELSE LET e == MatchEnd(s, i)
         IN IF e = 0 THEN findall(s, i + 1)
            ELSE {SubSeq(s, i, e - 1)} \cup findall(s, e)

\* str.strip() of a line.
RECURSIVE strip(_)
strip(s) ==
    IF s # <<>> /\ s[1] = " " THEN strip(Tail(s))
    ELSE IF s # <<>> /\ s[Len(s)] = " " THEN strip(SubSeq(s, 1, Len(s) - 1))
    ELSE s

\* Series.astype(str): an empty cell is NaN and becomes 'nan'.
astype_str(cell) == IF cell = <<>> THEN <<"n", "a", "n">> ELSE cell

\* Python's < on str.
RECURSIVE LexLess(_, _)
LexLess(a, b) ==
    IF b = <<>> THEN FALSE
    ELSE IF a = <<>> THEN TRUE
    ELSE IF a[1] # b[1] THEN Ord(a[1]) < Ord(b[1])
    ELSE LexLess(Tail(a), Tail(b))

\* The orders in which a set can be iterated.
Orders(S) ==
    {q \in [1..Cardinality(S) -> S] : \A x \in S : \E k \in DOMAIN q : q[k] = x}

RECURSIVE insert_sorted(_, _)
insert_sorted(x, q) ==
    IF q = <<>> THEN <<x>>
    ELSE IF LexLess(q[1], x) THEN <<q[1]>> \o insert_sorted(x, Tail(q))
    ELSE <<x>> \o q
\* A list of the items in the order they come.
unsorted(q) == q
\* sorted(...) of the items, which come in the order q.
RECURSIVE sorted(_)
sorted(q) == IF q = <<>> THEN <<>> ELSE insert_sorted(q[1], sorted(Tail(q)))

\* str.isdigit() and int() of col_input.
isdigit(t) == t # <<>> /\ \A k \in 1..Len(t) : IsDigit(t[k])
DigitVal(c) == IF c = "1" THEN 1 ELSE IF c = "2" THEN 2 ELSE IF c = "3" THEN 3 ELSE 0
RECURSIVE int(_)
int(t) == IF t = <<>> THEN 0 ELSE 10 * int(SubSeq(t, 1, Len(t) - 1)) + DigitVal(t[Len(t)])

\* `col_input not in df.columns` negated, and df[col] by name.
has_column_always(df, col) == TRUE
has_column(df, col) == \E k \in 1..Len(df.columns) : df.columns[k] = col
by_name(df, col) ==
    LET ks == {k \in 1..Len(df.columns) : df.columns[k] = col}
    IN IF ks = {} THEN <<>>
       ELSE [r \in 1..Len(df.rows) |-> df.rows[r][CHOOSE k \in ks : TRUE]]

\* df.iloc[:, idx]: idx counts from 0, a negative idx from the end.
iloc_ok(df, idx) == idx \in (0 - Len(df.columns))..(Len(df.columns) - 1)
iloc(df, idx) ==
    LET k == IF idx < 0 THEN Len(df.columns) + idx + 1 ELSE idx + 1
    IN [r \in 1..Len(df.rows) |-> df.rows[r][k]]

\* The set regs of extract_regs: every match in every cell of the series.
matches(series) ==
    UNION {findall(astype_str(series[r]), 1) : r \in 1..Len(series)}

\* The set of line 132: the stripped, non-empty lines.
lines_set(lines) ==
    {strip(lines[r]) : r \in {q \in 1..Len(lines) : strip(lines[q]) # <<>>}}

\* load_regs (lines 131-140, with extract_regs): how the script goes on and
\* the set whose sorted list is regs.  reread = the second read of the
\* upload (line 134, after line 117 read it) finds data.
Loaded(S) == [pc |-> "loaded", exc |-> "", set |-> S]
Halted(pc, exc) == [pc |-> pc, exc |-> exc, set |-> {}]
load_regs(ext, col, df, reread) ==
    IF ext = "txt" THEN Loaded(lines_set([r \in 1..Len(df.rows) |-> df.rows[r][1]]))
    ELSE IF ext = "csv"
    THEN IF ~reread THEN Halted("raised", "EmptyDataError")
         ELSE IF ~has_column(df, col) THEN Halted("stopped", "")
         ELSE Loaded(matches(by_name(df, col)))
    ELSE IF isdigit(col)
         THEN IF iloc_ok(df, int(col) - 1)
              THEN Loaded(matches(iloc(df, int(col) - 1)))
              ELSE Halted("raised", "IndexError")
         ELSE IF has_column(df, col)
              THEN Loaded(matches(by_name(df, col)))
              ELSE Halted("raised", "KeyError")

\* The uploads: two columns, 'Reg' and 'Note'; the cells of 'Note' hold
\* N2.  For a text file the cells of the first column are its lines.
ColNames == <<<<"R", "e", "g">>, <<"N", "o", "t", "e">>>>
NoSuchColumn == <<"T", "a", "i", "l">>
NoteCell == <<"N", "2">>
CellChars == {"N", "n", "1", "-", " "}
Cells == UNION {[1..n -> CellChars] : n \in 0..MaxCell}
\* G-ABCD, g-abcd, 'N1 G-A N1', N12, G-A, ' N1 ', 'N1-A', and the empty cell.
CellPool ==
    {<<"G", "-", "A", "B", "C", "D">>, <<"g", "-", "a", "b", "c", "d">>,
     <<"N", "1", " ", "G", "-", "A", " ", "N", "1">>, <<"N", "1", "2">>,
     <<"G", "-", "A">>, <<" ", "N", "1", " ">>, <<"N", "1", "-", "A">>, <<>>}
Uploads ==
    {[columns |-> ColNames, rows |-> <<<<c, NoteCell>>>>] : c \in Cells}
    \cup UNION {{[columns |-> ColNames, rows |-> [r \in 1..n |-> <<q[r], NoteCell>>]] :
                   q \in [1..n -> CellPool]} : n \in 2..MaxRows}

\* What col_input can hold: nothing for a text file, a column name for a
\* CSV file, a name or a number for an Excel file.
Selectors(ext) ==
    IF ext = "txt" THEN {<<>>}
    ELSE Range(ColNames) \cup {NoSuchColumn}
         \cup (IF ext = "csv" THEN {} ELSE {<<"0">>, <<"1">>, <<"2">>, <<"3">>})

InitLoad ==
    /\ regs = <<>> /\ workers = 1
    /\ check_ati = FALSE /\ check_v1 = FALSE /\ check_ain = FALSE
    /\ RunIdle
    /\ ProbeIdle
    /\ l_ext \in {"txt", "csv", "xlsx"}
    /\ l_col \in Selectors(l_ext)
    /\ l_df \in Uploads
    /\ l_pc = "start"
    /\ l_exc = ""
    /\ l_regs = <<>>
    /\ l_prev = <<>>
    /\ l_runs = 0

\* What the second read of the upload can give: for a CSV file line 117
\* has read the upload before line 134 does.
Rereads == IF l_ext = "csv" THEN BOOLEAN ELSE {TRUE}

\* Line 140, regs = load_regs(): the set is iterated in some order and
\* sorted; st.stop() or an exception ends the script run.
LoadRegs ==
    /\ l_pc = "start"
    /\ \E reread \in Rereads :
         LET r == load_regs(l_ext, l_col, l_df, reread) IN
           /\ l_pc' = r.pc
           /\ l_exc' = r.exc
           /\ \E q \in Orders(r.set) : l_regs' = sorted(q)
    /\ UNCHANGED <<l_ext, l_col, l_df, l_prev, l_runs>>
    /\ UNCHANGED <<cfgvars, runvars, probevars>>

\* Run Checks is pressed: the script runs again from the top, load_regs
\* included, and reaches line 143 only when load_regs returned.
PressRunChecks ==
    /\ l_pc = "loaded"
    /\ l_runs < MaxRuns
    /\ \E reread \in Rereads :
         LET r == load_regs(l_ext, l_col, l_df, reread) IN
           /\ l_pc' = r.pc
           /\ l_exc' = r.exc
           /\ \E q \in Orders(r.set) : l_regs' = sorted(q)
           /\ l_runs' = IF r.pc = "loaded" THEN l_runs + 1 ELSE l_runs
    /\ l_prev' = l_regs
    /\ UNCHANGED <<l_ext, l_col, l_df>>
    /\ UNCHANGED <<cfgvars, runvars, probevars>>

NextLoad ==
    \/ LoadRegs
    \/ PressRunChecks

SpecLoad == InitLoad /\ [][NextLoad]_vars

\* --------------------------------------------------------------- claims
\* The for loop of line 153 has ended.
LoopDone == main_pc \in {"frame", "xlsx", "done", "failed"}
\* The script run has ended, with or without an exception.
RunEnded == main_pc \in {"done", "failed"}

\* C1: at every moment results is a prefix of the records in input order
\* (results[i] carries regs[i]), and once the loop has ended it has exactly
\* one record per input registration.
C1_OrderPreserved ==
    /\ Len(results) <= Len(regs)
    /\ \A i \in 1..Len(results) : results[i]["Registration"] = regs[i]
    /\ LoopDone => Len(results) = Len(regs)

\* C1 witness: two workers, a later check returned before an earlier one,
\* and the loop has ended with both records.
C1_Witness ==
    /\ LoopDone /\ workers = 2 /\ overtook /\ Len(results) = 2

\* C2: once Run Checks is pressed the run never ends in an uncaught
\* exception, whatever providers are selected and whatever the probes
\* return, and after the loop there is one record per input registration.
C2_RunNeverFails ==
    /\ main_pc # "failed"
    /\ LoopDone => Len(results) = Len(regs)

\* The header the report is to have: Registration, then the two columns
\* of every selected provider, in the order ATI, V1, AIN.
SelectedHeader ==
    <<"Registration">>
    \o (IF check_ati THEN <<"AirTeamImages", "ATI_Link">> ELSE <<>>)
    \o (IF check_v1 THEN <<"V1Images", "V1_Link">> ELSE <<>>)
    \o (IF check_ain THEN <<"AIN", "AIN_Link">> ELSE <<>>)

\* C3: when the run has ended there is a report whose header is
\* Registration followed by the column blocks of exactly the selected
\* providers, with one row per registration in the order of results.
C3_ReportColumns ==
    RunEnded =>
        /\ report.header = SelectedHeader
        /\ Len(report.rows) = Len(regs)
        /\ \A i \in 1..Len(report.rows) :
             report.rows[i]["Registration"] = results[i]["Registration"]

\* C4: a probe that returns found = False returns the empty link.
C4_NotFoundNoLink ==
    p_pc = "returned" => (~p_out[1] => p_out[2] = <<>>)

\* A thread is between its driver.get and the end of its inspection.
InBrowser(w) == wk[w].pc \in {"ain_wait", "ain_find"}

\* C5: no two threads are at the same time between navigating the shared
\* browser and the end of inspecting the page.
C5_NavigationSerialized ==
    \A v, w \in 1..MaxWorkers : (v # w /\ InBrowser(v)) => ~InBrowser(w)

\* The pair a probe returns for reg when the site serves s and the probe
\* runs with nothing else going on.
Alone(p, reg, s) ==
    IF p = "ATI" THEN search_airteam(reg, s)
    ELSE IF p = "V1" THEN search_v1(reg, s)
    ELSE search_ain(reg, s)
FlagCol(p) == IF p = "ATI" THEN "AirTeamImages" ELSE IF p = "V1" THEN "V1Images" ELSE "AIN"
LinkCol(p) == IF p = "ATI" THEN "ATI_Link" ELSE IF p = "V1" THEN "V1_Link" ELSE "AIN_Link"
Selected(p) == IF p = "ATI" THEN check_ati ELSE IF p = "V1" THEN check_v1 ELSE check_ain

\* C6: the flag and link recorded for a registration and a provider are
\* those that follow from what that provider served for that registration.
C6_OutcomesIndependent ==
    \A i \in 1..Len(futures) : \A p \in Range(Providers) :
        (futures[i].done /\ Selected(p)) =>
            <<futures[i].e[FlagCol(p)], futures[i].e[LinkCol(p)]>>
                = Alone(p, regs[i], remote[i][p])

\* check(reg) run on its own: lines 146-151.
check(reg, served) ==
    LET e0 == [Registration |-> reg]
        e1 == IF check_ati
              THEN put(e0, "AirTeamImages", "ATI_Link", search_airteam(reg, served["ATI"]))
              ELSE e0
        e2 == IF check_v1
              THEN put(e1, "V1Images", "V1_Link", search_v1(reg, served["V1"]))
              ELSE e1
    IN IF check_ain
       THEN put(e2, "AIN", "AIN_Link", search_ain(reg, served["AIN"]))
       ELSE e2

\* Every probe of the run answers as a fixed function of the registration:
\* the HTTP probes always do; the browser probe does when one thread at a
\* time uses the browser.
DeterministicProbes == ~check_ain \/ workers = 1

\* C7: with probes that answer as a fixed function of the registration,
\* the list of records after the loop is the list a one-by-one run of check
\* over regs gives, whatever the worker count and the scheduling.
C7_SameForAnyWorkers ==
    (LoopDone /\ DeterministicProbes) =>
        results = [i \in 1..Len(regs) |-> check(regs[i], remote[i])]

\* C7 witness: two workers, two registrations probed by both HTTP probes,
\* the later one returned first.
C7_Witness ==
    /\ LoopDone /\ workers = 2 /\ overtook /\ Len(regs) = 2
    /\ check_ati /\ check_v1 /\ ~check_ain

C9_FailureContained ==
    /\ p_pc # "raised"
    /\ (p_pc = "returned" /\ p_exc # "") => p_out = <<FALSE, <<>>>>

\* C9 witness: an HTTP probe returned after its retries were used up.
C9_Witness ==
    /\ p_pc = "returned" /\ p_exc = "RetryError" /\ Len(p_history) = 4

\* C10 as stated: whenever r.url differs from the requested URL in any way,
\* search_v1 returns True with r.url.
C10_AnyDifference ==
    (p_probe = "V1" /\ p_pc = "returned" /\ p_exc = ""
       /\ p_fetch.final # v1_url(p_reg))
        => p_out = <<TRUE, p_fetch.final>>

\* a is b followed by nothing but '/' characters, or the other way round.
Slashes(n) == [i \in 1..n |-> "/"]
OnlyTrailingSlashesApart(a, b) ==
    \E n \in 0..(Len(a) + Len(b)) : a = b \o Slashes(n) \/ b = a \o Slashes(n)

\* C10 amended: whenever the fetch succeeded and r.url differs from the
\* requested URL by more than trailing slashes, search_v1 returns True with
\* r.url, whatever the body holds.
C10_RealRedirectFound ==
    (p_probe = "V1" /\ p_pc = "returned" /\ p_exc = ""
       /\ ~OnlyTrailingSlashesApart(p_fetch.final, v1_url(p_reg)))
        => p_out = <<TRUE, p_fetch.final>>

\* C10 witness: redirected to an item page whose body has no marker.
C10_Witness ==
    /\ p_probe = "V1" /\ p_pc = "returned" /\ p_exc = ""
    /\ p_fetch.final = v1_item(p_reg) /\ ~p_fetch.marker
    /\ p_out = <<TRUE, v1_item(p_reg)>>

\* C14: every value given to progress.progress is k/n with k the number of
\* records collected so far, one more than the value before; when k/n is
\* reported the checks of the first k registrations have returned; after
\* the loop over n >= 1 registrations the last value is n/n.
C14_ProgressInv ==
    /\ main_pc # "idle" /\ Len(results) >= 1 => progress = <<Len(results), Len(regs)>>
    /\ main_pc # "idle" /\ progress[1] >= 1 =>
          \A i \in 1..progress[1] : futures[i].done
    /\ (LoopDone /\ Len(regs) >= 1) => progress[1] = progress[2]
C14_ProgressStep ==
    progress' # progress =>
        /\ progress'[2] = Len(regs)
        /\ progress'[1] = (IF progress = <<0, 1>> THEN 1 ELSE progress[1] + 1)
C14_Progress == [](C14_ProgressInv) /\ [][C14_ProgressStep]_vars

\* C14 witness: two registrations, the later check returned first, and the
\* loop ended with the report 2/2.
C14_Witness ==
    /\ LoopDone /\ overtook /\ progress = <<2, 2>>

\* The indexes whose check has started and has not returned.
InFlight == {i \in 1..Len(futures) : i \notin Range(queue) /\ ~futures[i].done}

\* What is called for every registration, in order: check, then the
\* selected probes.
FullCalls ==
    <<"check">>
    \o (IF check_ati THEN <<"ATI">> ELSE <<>>)
    \o (IF check_v1 THEN <<"V1">> ELSE <<>>)
    \o (IF check_ain THEN <<"AIN">> ELSE <<>>)

\* C15: at most `workers` checks are in flight, every check in flight is run
\* by exactly one thread, and a thread leaves an index only when the check
\* of that index has returned with every selected probe called.
C15_BoundedInv ==
    /\ Cardinality(InFlight) <= workers
    /\ \A i \in InFlight :
         Cardinality({w \in 1..MaxWorkers : wk[w].pc # "idle" /\ wk[w].idx = i}) = 1
    /\ \A w \in 1..MaxWorkers : wk[w].pc # "idle" => wk[w].idx \in InFlight
C15_BoundedStep ==
    \A w \in 1..MaxWorkers :
        (wk[w].pc # "idle" /\ wk'[w].idx # wk[w].idx) =>
            /\ futures'[wk[w].idx].done
            /\ calls'[wk[w].idx] = FullCalls
            /\ wk'[w].pc = "idle"
C15_Bounded == [](C15_BoundedInv) /\ [][C15_BoundedStep]_vars

\* C15 witness: one worker, two registrations; the thread runs the second
\* check after the first has returned.
C15_Witness ==
    /\ workers = 1 /\ Len(futures) = 2 /\ check_ati
    /\ futures[1].done /\ wk[1].pc # "idle" /\ wk[1].idx = 2

IsPrefix(a, b) == Len(a) <= Len(b) /\ \A k \in 1..Len(a) : a[k] = b[k]

\* C16: for every registration the calls made so far are a prefix of
\* check, ATI, V1, AIN restricted to the selected providers (so a probe is
\* called only after the selected ones before it, and an unselected one
\* never), a thread inside a probe has made that probe's call last, and a
\* check that has returned has called every selected probe.
C16_ProbeOrder ==
    /\ \A i \in 1..Len(calls) :
        /\ IsPrefix(calls[i], FullCalls)
        /\ futures[i].done => calls[i] = FullCalls
    /\ \A w \in 1..MaxWorkers :
        wk[w].pc \in {"ain_wait", "ain_find"} =>
            calls[wk[w].idx][Len(calls[wk[w].idx])] = "AIN"

\* C16 witness: ATI and AIN selected, V1 not; a check has returned.
C16_Witness ==
    /\ check_ati /\ ~check_v1 /\ check_ain
    /\ Len(futures) >= 1 /\ futures[1].done
    /\ calls[1] = <<"check", "ATI", "AIN">>

Count(seq, x) == Cardinality({k \in 1..Len(seq) : seq[k] = x})
\* The provider whose probe a thread at this position of check runs.
ProviderAt(pc) == IF pc = "ati" THEN "ATI" ELSE IF pc = "v1" THEN "V1" ELSE "AIN"
\* The record of thread w after a step: its e, or what check returned.
RecordAfter(w) ==
    IF wk'[w].idx = wk[w].idx THEN wk'[w].e ELSE futures'[wk[w].idx].e

\* C18: check and every probe are called at most once per registration and
\* exactly once (the selected probes) when the check has returned; a step
\* of a probe leaves every field already in the record as it is and adds at
\* most the flag and the link of its own provider; the result of a returned
\* check and the records in results never change.
C18_OnceInv ==
    \A i \in 1..Len(calls) :
        /\ \A x \in {"check", "ATI", "V1", "AIN"} : Count(calls[i], x) <= 1
        /\ futures[i].done =>
             /\ Count(calls[i], "check") = 1
             /\ \A p \in Range(Providers) :
                  Count(calls[i], p) = (IF Selected(p) THEN 1 ELSE 0)
C18_FrameStep ==
    /\ \A i \in 1..Len(results) :
         Len(results') >= i /\ results'[i] = results[i]
    /\ \A i \in 1..Len(futures) :
         futures[i].done => futures'[i] = futures[i]
    /\ \A w \in 1..MaxWorkers :
         wk[w].pc # "idle" =>
            /\ \A k \in DOMAIN wk[w].e :
                 k \in DOMAIN RecordAfter(w) /\ RecordAfter(w)[k] = wk[w].e[k]
            /\ (DOMAIN RecordAfter(w)) \ (DOMAIN wk[w].e)
                 \subseteq {FlagCol(ProviderAt(wk[w].pc)), LinkCol(ProviderAt(wk[w].pc))}
C18_BuiltOnce == [](C18_OnceInv) /\ [][C18_FrameStep]_vars

\* C18 witness: both HTTP probes selected, two records collected.
C18_Witness ==
    /\ LoopDone /\ check_ati /\ check_v1 /\ Len(results) = 2
    /\ results[1]["ATI_Link"] # <<>> /\ results[1]["V1_Link"] = <<>>

\* C17: when the fetch of search_v1 succeeded without a redirect (r.url is
\* the requested URL) and the body has the figure marker, search_v1 returns
\* True with the requested URL, token for token.
C17_FigureFound ==
    (p_probe = "V1" /\ p_pc = "returned" /\ p_exc = ""
       /\ p_fetch.final = v1_url(p_reg) /\ p_fetch.marker)
        => p_out = <<TRUE, v1_url(p_reg)>>

\* C17 witness: no redirect, figure marker in the body, found.
C17_Witness ==
    /\ p_probe = "V1" /\ p_pc = "returned" /\ p_exc = "" /\ p_reg = "VH OQA"
    /\ p_fetch.final = v1_url(p_reg) /\ p_fetch.marker
    /\ p_out[1]

\* C11: the list load_regs returns is strictly ascending in the order of
\* Python strings (so it has no duplicates), and the list of the script run
\* that Run Checks starts is the list of the run before.
C11_SortedUnique ==
    l_pc = "loaded" =>
        /\ \A i, j \in 1..Len(l_regs) : i < j => LexLess(l_regs[i], l_regs[j])
        /\ l_runs >= 1 => l_regs = l_prev

\* C11 witness: a list of two registrations, extracted a second time.
C11_Witness ==
    /\ l_pc = "loaded" /\ l_runs = 1 /\ Len(l_regs) = 2 /\ l_ext = "xlsx"

\* str.upper().
ToUpper(c) ==
    IF c = "a" THEN "A" ELSE IF c = "b" THEN "B" ELSE IF c = "c" THEN "C"
    ELSE IF c = "d" THEN "D" ELSE IF c = "g" THEN "G" ELSE IF c = "n" THEN "N" ELSE c
upper(t) == [k \in 1..Len(t) |-> ToUpper(t[k])]

\* The cells of the column that col_input selects.
SelectedSeries ==
    IF l_ext = "xlsx" /\ isdigit(l_col) THEN iloc(l_df, int(l_col) - 1)
    ELSE by_name(l_df, l_col)

\* C12: for a CSV or Excel upload every match of the pattern in the
\* upper-cased text of a cell of the selected column is in the list.
C12_UppercaseFirst ==
    (l_pc = "loaded" /\ l_ext \in {"csv", "xlsx"}) =>
        \A r \in 1..Len(SelectedSeries) :
            findall(upper(astype_str(SelectedSeries[r])), 1) \subseteq Range(l_regs)

\* col_input is the name of no column of the upload.
NamesNoColumn == \A k \in 1..Len(l_df.columns) : l_df.columns[k] # l_col

\* C13: when col_input names a column the CSV or Excel upload does not
\* have, the script run ends in load_regs (for a CSV file that was read,
\* with st.error and st.stop), regs is never set and Run Checks never
\* dispatches.
C13_MissingColumn ==
    (/\ l_pc # "start"
     /\ l_ext \in {"csv", "xlsx"}
     /\ NamesNoColumn
     /\ (l_ext = "csv" \/ ~isdigit(l_col))) =>
        /\ l_pc \in {"stopped", "raised"}
        /\ l_regs = <<>>
        /\ l_runs = 0
        /\ (l_ext = "csv" /\ l_exc = "") => l_pc = "stopped"
        /\ l_ext = "xlsx" => l_exc = "KeyError"

\* C13 witness: a CSV upload without the named column; the run stopped.
C13_Witness ==
    /\ l_ext = "csv" /\ l_col = NoSuchColumn /\ l_pc = "stopped"

\* C19: for an Excel upload and a numeric col_input k, the list holds the
\* matches of the k-th column (counted from 1) when 1 <= k <= number of
\* columns, and load_regs ends in an error otherwise.
C19_OneBased ==
    (l_pc # "start" /\ l_ext = "xlsx" /\ isdigit(l_col)) =>
        IF int(l_col) \in 1..Len(l_df.columns)
        THEN /\ l_pc = "loaded"
             /\ Range(l_regs) =
                  matches([r \in 1..Len(l_df.rows) |-> l_df.rows[r][int(l_col)]])
        ELSE l_pc = "raised"
====
